---- MODULE Spec2Model ----
(***************************************************************************)
(* Progress reporting of the node adapters of nano-fal.                    *)
(*                                                                         *)
(* Every adapter's execute() validates its inputs, uploads its input       *)
(* images, constructs one progress strategy and subscribes to the remote   *)
(* job; the onQueueUpdate callback turns each lifecycle event of the job   *)
(* into a status sent to the host's status sink.  Five adapters are        *)
(* modelled, one for every shape of onQueueUpdate found in the sources:    *)
(*   veo31   veo31ImageToVideoNode        forwards the strategy verbatim   *)
(*   veo3    veo3ImageToVideoNode         hard-codes the IN_QUEUE status   *)
(*   nbpEdit nanoBananaProEditNode        per-image upload progress,       *)
(*                                        IN_QUEUE step max(40, .)         *)
(*   gemini  geminiFlashEditMultiNode     per-image upload progress,       *)
(*                                        IN_QUEUE step max(30, .)         *)
(*   seedvr  seedvrUpscaleImageNode       passes stepIndex 0               *)
(* Six more are followed from execute()  to the submission of the job,     *)
(* for the parameter handling and the order of validation (SpecSubmit):    *)
(*   kontextT2I     fluxKontextTextToImageNode   no input image            *)
(*   kreaRedux      flux1KreaReduxNode           clamp guarded against NaN *)
(*   qwenEditPlus   qwenImageEditPlusNode        no clamp                  *)
(*   fluxProControl fluxProControlNode           fine-tune variants        *)
(*   sora2I2V       sora2ImageToVideoNode        variant and resolution    *)
(*   seedreamEdit   seedreamEditNode             size validation           *)
(*                                                                         *)
(* sam3VideoNode (sam3Video) and fluxProControlNode are followed from the  *)
(* completion of the job through the storing of the result.                *)
(* The strategy itself (utils/progress-strategy) and getParameterValue     *)
(* (utils/parameter-utils) are modelled from the specification.  Time is   *)
(* in milliseconds.                                                        *)
(***************************************************************************)
EXTENDS Integers, Sequences, FiniteSets, TLC

VARIABLES
    clock,      \* wall-clock time, ms
    pc,         \* pc[j]: position of execution j
    kind,       \* kind[j]: the adapter execution j runs
    inputs,     \* inputs[j]: the inputs and parameters execution j was given
    uploaded,   \* uploaded[j]: input images uploaded so far
    stepCount,  \* stepCount[c]: the `let stepCount` of the execution owning cell c
    strategy,   \* strategy[c]: the `const strategy` of the execution owning cell c
    submittedAt, \* submittedAt[j]: the time execution j submitted its job
    trace,      \* trace[j]: per delivered event, the strategy calls and statuses
    sink,       \* sink[j]: every status execution j sent, in order
    result,     \* result[j]: the media the provider returned to execution j
    outputs     \* outputs[j]: the asset URIs execution j returned

vars == <<clock, pc, kind, inputs, uploaded, stepCount, strategy, submittedAt, trace, sink,
          result, outputs>>

----------------------------------------------------------------------------
(* Bounds of the model *)

NumJobs == 2
MaxTicks == 2
MaxEvents == 2
MaxConcEvents == 1
MaxConcTicks == 1
TickMs == 10000

Jobs == 1..NumJobs

----------------------------------------------------------------------------
(* Helpers *)

Min(a, b) == IF a <= b THEN a ELSE b
Max(a, b) == IF a >= b THEN a ELSE b

\* The value Number() gives for what is not numeric.  Math.min, Math.max and
\* the arithmetic hand it on; every comparison with it is false.
NaN == -1000000
IsNaN(x) == x = NaN
MathMin(a, b) == IF IsNaN(a) \/ IsNaN(b) THEN NaN ELSE Min(a, b)
MathMax(a, b) == IF IsNaN(a) \/ IsNaN(b) THEN NaN ELSE Max(a, b)
Times(a, b) == IF IsNaN(a) \/ IsNaN(b) THEN NaN ELSE a * b

Digits == <<"0", "1", "2", "3", "4", "5", "6", "7", "8", "9">>

\* The longer numerals the model passes.
Numerals ==
    ("1280" :> 1280) @@ ("1440" :> 1440) @@ ("1920" :> 1920) @@ ("2560" :> 2560) @@
    ("4096" :> 4096) @@ ("4097" :> 4097)

\* Number(x) of a parameter value: the number a numeral stands for, else NaN.
Number(x) ==
    IF \E i \in DOMAIN Digits : Digits[i] = x
    THEN (CHOOSE i \in DOMAIN Digits : Digits[i] = x) - 1
    ELSE IF x \in DOMAIN Numerals THEN Numerals[x]
    ELSE NaN

Msg(s) == <<s>>
MsgN(s, n) == <<s, n>>
MsgOf(s, n, m) == <<s, n, m>>

NoProgress == <<>>
Progress(step, total) == <<step, total>>

Status(type, message, progress) ==
    [type |-> type, message |-> message, progress |-> progress]

----------------------------------------------------------------------------
(* The progress strategy (utils/progress-strategy), from its specification *)

TotalSteps == 100
QueueStep == 5
Ceiling == 95

NoStrategy == [expectedMs |-> 0, inQueueMessage |-> Msg(""),
               finalizingMessage |-> Msg(""), defaultInProgressMessage |-> "",
               startedAt |-> 0, live |-> FALSE]

createProgressStrategy(cfg, now) ==
    [expectedMs |-> cfg.expectedMs,
     inQueueMessage |-> cfg.inQueueMessage,
     finalizingMessage |-> cfg.finalizingMessage,
     defaultInProgressMessage |-> cfg.defaultInProgressMessage,
     startedAt |-> now,
     live |-> TRUE]

\* A queue step outside the low range.
onQueue_High(s, now) ==
    [message |-> s.inQueueMessage, progress |-> Progress(QueueStep * 3, TotalSteps)]

\* A queue step that decays while the job waits.
onQueue_Decaying(s, now) ==
    [message |-> s.inQueueMessage,
     progress |-> Progress(Max(0, QueueStep - (now - s.startedAt) \div TickMs), TotalSteps)]

\* The strategy is a function of its inputs and the wall clock: every handler
\* reads the time of the call.  The queue step is fixed.
onQueue(s, now) ==
    [message |-> s.inQueueMessage, progress |-> Progress(QueueStep, TotalSteps)]

\* An estimate that is not saturated when expectedMs is not positive.
TimeEstimate_Unsaturated(s, now) ==
    IF s.expectedMs <= 0
    THEN 0
    ELSE Min(Ceiling, ((now - s.startedAt) * 100) \div s.expectedMs)

TimeEstimate(s, now) ==
    IF s.expectedMs <= 0
    THEN Ceiling
    ELSE Min(Ceiling, ((now - s.startedAt) * 100) \div s.expectedMs)

\* The default message preferred to the milestone text.
InProgressMessage_DefaultFirst(s, status, stepIndex) ==
    IF s.defaultInProgressMessage # "" THEN MsgN(s.defaultInProgressMessage, stepIndex)
    ELSE IF status.log = "milestone" THEN Msg("milestone")
    ELSE Msg("Processing...")

InProgressMessage(s, status, stepIndex) ==
    IF status.log = "milestone" THEN Msg("milestone")
    ELSE IF s.defaultInProgressMessage = "" THEN Msg("Processing...")
    ELSE MsgN(s.defaultInProgressMessage, stepIndex)

\* The time-based estimate blended with the caller's stepIndex: the larger of
\* the two, never below the queue step and never above the ceiling.
onProgress(s, now, status, stepIndex) ==
    [message |-> InProgressMessage(s, status, stepIndex),
     progress |-> Progress(Min(Ceiling, Max(QueueStep, Max(TimeEstimate(s, now), stepIndex))),
                           TotalSteps)]

\* A completion that stops at the ceiling.
onCompleted_Ceiling(s) ==
    [message |-> s.finalizingMessage, progress |-> Progress(Ceiling, TotalSteps)]

onCompleted(s) ==
    [message |-> s.finalizingMessage, progress |-> Progress(100, TotalSteps)]

----------------------------------------------------------------------------
(* The adapters *)

Kinds == {"veo31", "veo3", "nbpEdit", "gemini", "seedvr"}

\* The adapters followed from execute() to the submission of the job.
SubmitKinds ==
    {"kontextT2I", "kreaRedux", "qwenEditPlus", "fluxProControl", "sora2I2V", "seedreamEdit"}

MaxInputImages == 4

\* Adapters that take image1..image4 and report progress per uploaded image.
MultiImage(k) == k \in {"nbpEdit", "gemini", "seedreamEdit"}

\* The values a caller can pass for a numeric parameter: none, a non-numeric
\* one, and numbers below, inside and above the declared range 1..4.
RawNumbers == {"absent", "abc", "0", "1", "4", "7"}

\* The values a caller can connect to a size input: none, a non-numeric one,
\* and sizes around the accepted ranges.
RawSizes == {"absent", "abc", "1440", "1920", "2560", "4096", "4097"}

\* The inputs and parameters an execution can be given.  images counts the
\* image inputs holding a usable asset reference, blanks those holding an
\* empty or null one (placed in the first slots).
InputChoices(k) ==
    IF k \in {"veo31", "veo3"}
    THEN [prompt : BOOLEAN, images : 0..1, blanks : {0}, model_variant : {"fast", "standard"},
          resolution : {"720p", "1080p"}, generate_audio : {TRUE}, num_images : {"1"},
          finetune_id : {""}, finetune_strength : {"1"},
          width : {"absent"}, height : {"absent"}]
    ELSE IF k = "nbpEdit"
    THEN [prompt : BOOLEAN, images : 0..MaxInputImages, blanks : {0, 1},
          model_variant : {"standard"}, resolution : {"720p"}, generate_audio : {FALSE},
          num_images : {"1", "4"}, finetune_id : {""}, finetune_strength : {"1"},
          width : {"absent"}, height : {"absent"}]
    ELSE IF k = "gemini"
    THEN [prompt : BOOLEAN, images : 0..MaxInputImages, blanks : {0, 1},
          model_variant : {"standard"}, resolution : {"720p"}, generate_audio : {FALSE},
          num_images : {"1"}, finetune_id : {""}, finetune_strength : {"1"},
          width : {"absent"}, height : {"absent"}]
    ELSE IF k = "seedvr"
    THEN [prompt : {TRUE}, images : 0..1, blanks : {0}, model_variant : {"standard"},
          resolution : {"720p"}, generate_audio : {FALSE}, num_images : {"1"},
          finetune_id : {""}, finetune_strength : {"1"},
          width : {"absent"}, height : {"absent"}]
    ELSE IF k = "seedreamEdit"
    THEN [prompt : BOOLEAN, images : 0..1, blanks : {0}, model_variant : {"standard"},
          resolution : {"720p"}, generate_audio : {FALSE}, num_images : {"1"},
          finetune_id : {""}, finetune_strength : {"1"},
          width : RawSizes, height : RawSizes]
    ELSE IF k = "sam3Video"
    THEN [prompt : BOOLEAN, images : 0..1, blanks : {0}, model_variant : {"standard"},
          resolution : {"720p"}, generate_audio : {FALSE}, num_images : {"1"},
          finetune_id : {""}, finetune_strength : {"1"},
          width : {"absent"}, height : {"absent"}]
    ELSE IF k = "kontextT2I"
    THEN [prompt : BOOLEAN, images : {0}, blanks : {0}, model_variant : {"max", "pro"},
          resolution : {"720p"}, generate_audio : {FALSE}, num_images : RawNumbers,
          finetune_id : {""}, finetune_strength : {"1"},
          width : {"absent"}, height : {"absent"}]
    ELSE IF k = "kreaRedux"
    THEN [prompt : BOOLEAN, images : 0..1, blanks : {0}, model_variant : {"standard"},
          resolution : {"720p"}, generate_audio : {FALSE}, num_images : RawNumbers,
          finetune_id : {""}, finetune_strength : {"1"},
          width : {"absent"}, height : {"absent"}]
    ELSE IF k = "qwenEditPlus"
    THEN [prompt : BOOLEAN, images : 0..2, blanks : {0, 1}, model_variant : {"standard"},
          resolution : {"720p"}, generate_audio : {FALSE}, num_images : RawNumbers,
          finetune_id : {""}, finetune_strength : {"1"},
          width : {"absent"}, height : {"absent"}]
    ELSE IF k = "fluxProControl"
    THEN [prompt : BOOLEAN, images : 0..1, blanks : {0},
          model_variant : {"flux-pro-v1-canny", "flux-pro-v1-canny-finetuned"},
          resolution : {"720p"}, generate_audio : {FALSE}, num_images : {"1", "abc"},
          finetune_id : {"", "ft-1"}, finetune_strength : {"1", "abc"},
          width : {"absent"}, height : {"absent"}]
    ELSE [prompt : BOOLEAN, images : 0..1, blanks : {0}, model_variant : {"standard", "pro"},
          resolution : {"absent", "720p", "1080p"}, generate_audio : {FALSE},
          num_images : {"1"}, finetune_id : {""}, finetune_strength : {"1"},
          width : {"absent"}, height : {"absent"}]

NoInputs == [prompt |-> FALSE, images |-> 0, blanks |-> 0, model_variant |-> "standard",
             resolution |-> "720p", generate_audio |-> FALSE, num_images |-> "1",
             finetune_id |-> "", finetune_strength |-> "1",
             width |-> "absent", height |-> "absent"]

\* The parameter's value when the caller passed one, else the default.
getParameterValue(value, default) == IF value = "absent" THEN default ELSE value

\* The clamp without a NaN guard: Math.min(Math.max(value, min), max).
clamp(value, lo, hi) == MathMin(MathMax(value, lo), hi)

\* The clamp that returns min for NaN.
clampNumber(value, lo, hi) == IF IsNaN(value) THEN lo ELSE Min(Max(value, lo), hi)

ensureOption(value, options, fallback) == IF value \in options THEN value ELSE fallback

RESOLUTIONS_STANDARD == {"auto", "720p"}
RESOLUTIONS_PRO == {"auto", "720p", "1080p"}

\* Sora 2: the variant and the resolution execute() works with.
ModelVariant(in) == IF in.model_variant = "pro" THEN "pro" ELSE "standard"

Resolution(in) ==
    IF ModelVariant(in) = "pro"
    THEN ensureOption(getParameterValue(in.resolution, "auto"), RESOLUTIONS_PRO, "auto")
    ELSE ensureOption(getParameterValue(in.resolution, "auto"), RESOLUTIONS_STANDARD, "auto")

\* Flux Pro control: the variants that need a fine-tune.
RequiresFinetune(variant) == variant = "flux-pro-v1-canny-finetuned"

\* floor(n * x / d), the quotient taken before the product so that no
\* intermediate value leaves the integers the checker computes with.
ScaledFloor(n, x, d) == n * (x \div d) + (n * (x % d)) \div d

\* Seedream Edit: the size execute() works with, 1280 x 1280 when no size
\* input is connected.
ImageWidth(in) == Number(IF in.width = "absent" THEN "1280" ELSE in.width)
ImageHeight(in) == Number(IF in.height = "absent" THEN "1280" ELSE in.height)

\* A size check without the upper limit of the pixel count.
SizeValid_NoMaximum(w, h) ==
    /\ ~IsNaN(w) /\ ~IsNaN(h)
    /\ \/ w >= 1920 /\ w <= 4096 /\ h >= 1920 /\ h <= 4096
       \/ Times(w, h) >= 2560 * 1440

\* Seedream Edit: dimValid or pixelsValid.  A comparison with NaN is false.
SizeValid(w, h) ==
    /\ ~IsNaN(w) /\ ~IsNaN(h)
    /\ \/ w >= 1920 /\ w <= 4096 /\ h >= 1920 /\ h <= 4096
       \/ Times(w, h) >= 2560 * 1440 /\ Times(w, h) <= 4096 * 4096

\* Flux Pro control: the finetuneStrength execute() computes.
FinetuneStrength(in) == clampNumber(Number(getParameterValue(in.finetune_strength, "1")), 0, 2)

RequiresPrompt(k) == k \notin {"seedvr", "kreaRedux", "sam3Video"}

\* The image inputs execute() keeps: gemini drops only the undefined ones, the
\* others every empty one.
ImageEntries(k, in) == IF k = "gemini" THEN in.images + in.blanks ELSE in.images

ImageRequiredMessage(k) ==
    IF k \in {"nbpEdit", "qwenEditPlus"} THEN "At least one image is required"
    ELSE IF k \in {"gemini", "seedreamEdit"} THEN "At least one input image is required"
    ELSE IF k = "kreaRedux" THEN "An input image is required"
    ELSE IF k = "fluxProControl" THEN "A control image is required"
    ELSE IF k = "sam3Video" THEN "Video is required"
    ELSE "Input image is required"

\* A validation that accepts an execution without images.
ValidationError_ImagesOptional(k, in) ==
    IF RequiresPrompt(k) /\ ~in.prompt THEN "Prompt is required"
    ELSE ""

\* The error message of the input validation, "" when the inputs pass.
ValidationError(k, in) ==
    IF RequiresPrompt(k) /\ ~in.prompt THEN "Prompt is required"
    ELSE IF k # "kontextT2I" /\ ImageEntries(k, in) = 0 THEN ImageRequiredMessage(k)
    ELSE IF k = "sora2I2V" /\ ModelVariant(in) = "standard" /\ Resolution(in) = "1080p"
    THEN "1080p resolution is only available in Pro variant"
    ELSE IF k = "seedreamEdit" /\ ~SizeValid(ImageWidth(in), ImageHeight(in))
    THEN "Invalid image dimensions"
    ELSE ""

\* The error message of the validation made after the input assets are
\* resolved, "" when it passes.
LateValidationError(k, in) ==
    IF k = "fluxProControl" /\ RequiresFinetune(in.model_variant) /\ in.finetune_id = ""
    THEN "Fine-tune ID is required for the selected model variant"
    ELSE IF k = "fluxProControl" /\ RequiresFinetune(in.model_variant)
            /\ IsNaN(FinetuneStrength(in))
    THEN "Fine-tune strength is required for the selected model variant"
    ELSE ""

PreparingMessage(k) ==
    IF k = "veo31" THEN Msg("Uploading image for Veo 3.1 animation...")
    ELSE IF k = "veo3" THEN Msg("Preparing image for Veo 3 animation...")
    ELSE IF k \in {"nbpEdit", "qwenEditPlus", "seedreamEdit"} THEN Msg("Preparing input images...")
    ELSE IF k = "gemini" THEN Msg("Processing input images...")
    ELSE IF k = "kreaRedux" THEN Msg("Preparing input image...")
    ELSE IF k = "fluxProControl" THEN Msg("Preparing control image...")
    ELSE IF k = "sora2I2V" THEN Msg("Preparing Sora 2 request...")
    ELSE IF k = "sam3Video" THEN Msg("Uploading video...")
    ELSE Msg("Preparing SeedVR Upscale request...")

\* The statuses sent between the validation and the first await.
PreparingStatuses(k) ==
    IF k = "kontextT2I" THEN <<>>
    ELSE <<Status("running", PreparingMessage(k), NoProgress)>>

\* Adapters that resolve their input assets before entering the try block.
ResolvesBeforeTry(k) == k \in {"veo31", "veo3", "kreaRedux", "qwenEditPlus", "fluxProControl"}

\* A quarter of the bar per uploaded image.
UploadStep_Quarter(k, n) ==
    IF k = "gemini" THEN n * 25 ELSE Min(10 + n * 5, 40)

\* The step sent after input image number n (1-based) is uploaded.
UploadStep(k, n) ==
    IF k = "gemini" THEN n * 20 ELSE Min(10 + n * 5, 40)

\* Progress counted in images instead of percent.
UploadStatus_InImages(k, n, of) ==
    Status("running",
           MsgOf(IF k = "nbpEdit" THEN "Uploaded reference image" ELSE "Uploaded image", n, of),
           Progress(n, of))

\* The status sent after input image number n (1-based) of `of` is uploaded.
UploadStatus(k, n, of) ==
    Status("running",
           MsgOf(IF k = "nbpEdit" THEN "Uploaded reference image" ELSE "Uploaded image", n, of),
           Progress(UploadStep(k, n), 100))

\* The adapters whose payload carries num_images.
NumImagesKinds == {"nbpEdit", "kontextT2I", "kreaRedux", "qwenEditPlus", "fluxProControl"}

\* The numImages execute() computes from the num_images parameter.
NumImages(k, in) ==
    LET value == Number(getParameterValue(in.num_images, "1"))
    IN IF k \in {"nbpEdit", "kontextT2I"} THEN clamp(value, 1, 4)
       ELSE IF k = "seedreamEdit" THEN clamp(value, 1, 6)
       ELSE IF k \in {"kreaRedux", "fluxProControl"} THEN clampNumber(value, 1, 4)
       ELSE value

\* The part of the submitted payload the parameters decide.
Payload(k, in) == [num_images |-> NumImages(k, in)]

\* sync_mode is off, the sampling parameters have their defaults.
expectedMs(k, in) ==
    IF k \in {"veo31", "veo3"}
    THEN (IF in.model_variant = "fast" THEN 60000 ELSE 120000)
         + (IF in.resolution = "1080p" THEN 30000 ELSE 0)
         + (IF in.generate_audio THEN 5000 ELSE 0)
    ELSE IF k = "nbpEdit"
    THEN MathMin(180000, MathMax(20000, Times(NumImages(k, in), 9000)))
    ELSE IF k = "gemini" THEN 25000
    ELSE IF k = "seedvr" THEN 10000
    ELSE IF k = "kontextT2I"
    THEN MathMin(120000, MathMax(18000,
            Times(IF in.model_variant = "max" THEN 34000 ELSE 24000, NumImages(k, in))))
    ELSE IF k = "kreaRedux"
    THEN MathMin(150000, MathMax(16000, (NumImages(k, in) * 26000 * 85) \div 100))
    ELSE IF k = "qwenEditPlus" THEN Max(5000, ImageEntries(k, in) * 10000)
    ELSE IF k = "seedreamEdit"
    THEN MathMin(180000, MathMax(20000,
            ScaledFloor(NumImages(k, in) * 375,
                        Max(ImageWidth(in) * ImageHeight(in), 1024 * 1024), 65536)))
    ELSE IF k = "fluxProControl"
    THEN MathMin(120000, MathMax(18000,
            Times(IF RequiresFinetune(in.model_variant) THEN 30000 ELSE 28000,
                  NumImages(k, in))))
    ELSE IF k = "sam3Video" THEN 30000
    ELSE 90000

StrategyConfig(k, in) ==
    [expectedMs |-> expectedMs(k, in),
     inQueueMessage |->
        IF k = "kreaRedux" THEN Msg("Waiting for Flux-1 Krea Redux...")
        ELSE IF k = "qwenEditPlus" THEN Msg("Waiting for Qwen Image Edit Plus...")
        ELSE IF k = "fluxProControl"
        THEN (IF RequiresFinetune(in.model_variant)
              THEN Msg("Waiting for Flux Pro v1 Canny (Fine-tuned)...")
              ELSE Msg("Waiting for Flux Pro v1 Canny..."))
        ELSE Msg("Waiting in queue..."),
     finalizingMessage |->
        IF k \in {"veo31", "veo3", "sora2I2V"} THEN Msg("Finalizing video...")
        ELSE IF k = "nbpEdit" THEN Msg("Finalizing edits...")
        ELSE IF k \in {"gemini", "seedreamEdit"} THEN Msg("Finalizing...")
        ELSE IF k = "seedvr" THEN Msg("Finalizing upscale...")
        ELSE IF k = "sam3Video" THEN Msg("Finalizing video segmentation...")
        ELSE Msg("Finalizing images..."),
     defaultInProgressMessage |->
        IF k \in {"veo31", "veo3"} THEN "Animating frame"
        ELSE IF k = "seedvr" THEN ""
        ELSE "Processing step"]

\* stepCount and strategy kept at module level, shared by all executions.
Cell_Shared(j) == 1

\* The cell holding an execution's stepCount and strategy: both are locals of
\* execute(), so every execution has a cell of its own.
Cell(j) == j

Call(handler, stepIndex, ret) ==
    [handler |-> handler, stepIndex |-> stepIndex, ret |-> ret]

\* The stepIndex an adapter passes to onProgress, given its counter after the
\* increment.
StepIndexArg(k, count) == IF k = "seedvr" THEN 0 ELSE count

\* The floor an adapter puts under the step of an IN_QUEUE status.
QueueFloor(k) ==
    IF k \in {"nbpEdit", "seedreamEdit"} THEN 40 ELSE IF k = "gemini" THEN 30 ELSE 0

\* The branches of onQueueUpdate.  Each returns the new stepCount, the
\* strategy calls made and the statuses sent.
OnInQueue(k, s, count, now) ==
    IF k = "veo3"
    THEN [stepCount |-> count, calls |-> <<>>,
          sent |-> <<Status("running", Msg("Waiting in queue..."), Progress(5, 100))>>]
    ELSE LET r == onQueue(s, now)
         IN [stepCount |-> count,
             calls |-> <<Call("onQueue", 0, r)>>,
             sent |-> <<Status("running", r.message,
                               IF MultiImage(k)
                               THEN Progress(Max(QueueFloor(k), r.progress[1]), 100)
                               ELSE r.progress)>>]

OnInProgress(k, s, count, now, status) ==
    LET n == IF k = "seedvr" THEN count ELSE count + 1
        r == onProgress(s, now, status, StepIndexArg(k, n))
    IN [stepCount |-> n,
        calls |-> <<Call("onProgress", StepIndexArg(k, n), r)>>,
        sent |-> <<Status("running", r.message, r.progress)>>]

\* The completed event handled as one more progress event after finalizing.
OnCompleted_ThenProgress(k, s, count, now, status) ==
    LET r == onCompleted(s)
        q == onProgress(s, now, status, count)
    IN [stepCount |-> count,
        calls |-> <<Call("onCompleted", 0, r), Call("onProgress", count, q)>>,
        sent |-> <<Status("running", r.message, r.progress)>>]

OnCompleted(k, s, count, now, status) ==
    LET r == onCompleted(s)
    IN [stepCount |-> count,
        calls |-> <<Call("onCompleted", 0, r)>>,
        sent |-> <<Status("running", r.message, r.progress)>>]

\* onQueueUpdate: what one lifecycle event makes the adapter do.
onQueueUpdate(k, s, count, now, status) ==
    IF status.status = "IN_QUEUE" THEN OnInQueue(k, s, count, now)
    ELSE IF status.status = "IN_PROGRESS" THEN OnInProgress(k, s, count, now, status)
    ELSE IF status.status = "COMPLETED" THEN OnCompleted(k, s, count, now, status)
    ELSE [stepCount |-> count, calls |-> <<>>, sent |-> <<>>]

----------------------------------------------------------------------------
(* The executions *)

Event(status, log) == [status |-> status, log |-> log]

\* The lifecycle events the remote client can deliver while the job runs.
RunningEvents ==
    {Event("IN_QUEUE", "none")} \cup
    {Event("IN_PROGRESS", l) : l \in {"none", "milestone"}}

Completed == Event("COMPLETED", "none")

Send(j, statuses) == sink' = [sink EXCEPT ![j] = @ \o statuses]

Init ==
    /\ clock = 0
    /\ pc = [j \in Jobs |-> "idle"]
    /\ kind = [j \in Jobs |-> "veo31"]
    /\ inputs = [j \in Jobs |-> NoInputs]
    /\ uploaded = [j \in Jobs |-> 0]
    /\ stepCount = [j \in Jobs |-> 0]
    /\ strategy = [j \in Jobs |-> NoStrategy]
    /\ submittedAt = [j \in Jobs |-> 0]
    /\ trace = [j \in Jobs |-> <<>>]
    /\ sink = [j \in Jobs |-> <<>>]
    /\ result = [j \in Jobs |-> <<>>]
    /\ outputs = [j \in Jobs |-> <<>>]

\* The most images a job returns.
MaxResultImages == 2

\* A media of the provider's response: whether it carries a URL, and whether
\* the host's asset store yields a URI when it is stored.
Media == [url : BOOLEAN, uri : BOOLEAN]

\* Adapters whose response holds one video or image rather than a list.
SingleMedia(k) == k \in {"veo31", "veo3", "gemini", "seedvr", "sora2I2V", "sam3Video"}

\* The responses a completed job can carry; <<>> is a response without media.
ResultChoices(k) ==
    UNION {[1..n -> Media] : n \in 0..(IF SingleMedia(k) THEN 1 ELSE MaxResultImages)}

\* Of these, the response without media and the one with a single media that
\* has a URL and is stored.
PlainResponses == {<<>>, <<[url |-> TRUE, uri |-> TRUE]>>}

\* The outcome of storing a result: the error thrown, "" when none, and the
\* URIs returned.  The URI of the i-th returned media is i; 0 is no URI.
Stored(uris) == [error |-> "", uris |-> uris]
Thrown(message) == [error |-> message, uris |-> <<>>]

\* nanoBananaProEditNode: the loop over the returned images, from image i on
\* with the URIs acc collected so far.
RECURSIVE CollectUris(_, _, _)
CollectUris(images, i, acc) ==
    IF i > Len(images)
    THEN (IF acc = <<>> THEN Thrown("Edited images could not be retrieved") ELSE Stored(acc))
    ELSE IF ~images[i].url THEN CollectUris(images, i + 1, acc)
    ELSE IF ~images[i].uri THEN Thrown("Failed to upload edited image")
    ELSE CollectUris(images, i + 1, Append(acc, i))

\* flux-pro: every image is stored, the first rejection rejecting the whole.
uploadGeneratedImages(images) ==
    IF \E i \in DOMAIN images : ~images[i].url
    THEN Thrown("Fal response did not contain an image URL")
    ELSE IF \E i \in DOMAIN images : ~images[i].uri
    THEN Thrown("Failed to upload generated image")
    ELSE Stored([i \in DOMAIN images |-> i])

\* What execute() does with the response of the completed job.
StoreResult(k, images) ==
    IF images = <<>> \/ (SingleMedia(k) /\ ~images[1].url) THEN Thrown("No result was returned")
    ELSE IF k = "nbpEdit" THEN CollectUris(images, 1, <<>>)
    ELSE IF k = "fluxProControl" THEN uploadGeneratedImages(images)
    ELSE IF k = "sam3Video" THEN Stored(<<IF images[1].uri THEN 1 ELSE 0>>)
    ELSE IF ~images[1].uri THEN Thrown("Failed to upload generated media")
    ELSE Stored(<<1>>)

\* The payload is built, stepCount and the strategy are created and the job is
\* submitted with fal.subscribe.
Submit(j, k, in) ==
    /\ stepCount' = [stepCount EXCEPT ![Cell(j)] = 0]
    /\ strategy' = [strategy EXCEPT ![Cell(j)] =
                       createProgressStrategy(StrategyConfig(k, in), clock)]
    /\ submittedAt' = [submittedAt EXCEPT ![j] = clock]
    /\ pc' = [pc EXCEPT ![j] = "subscribed"]

\* execute() up to its first await: input validation, then the first status;
\* an adapter without input images goes on to submit its job.
Execute(j, k, in) ==
    /\ pc[j] = "idle"
    /\ kind' = [kind EXCEPT ![j] = k]
    /\ inputs' = [inputs EXCEPT ![j] = in]
    /\ IF ValidationError(k, in) # ""
       THEN /\ Send(j, <<Status("error", Msg(ValidationError(k, in)), NoProgress)>>)
            /\ pc' = [pc EXCEPT ![j] = "rejected"]
            /\ UNCHANGED <<stepCount, strategy, submittedAt>>
       ELSE /\ Send(j, PreparingStatuses(k))
            /\ IF ImageEntries(k, in) = 0
               THEN Submit(j, k, in)
               ELSE /\ pc' = [pc EXCEPT ![j] = "uploading"]
                    /\ UNCHANGED <<stepCount, strategy, submittedAt>>
    /\ UNCHANGED <<clock, uploaded, trace,
                 result, outputs>>

\* The next image input to resolve holds no usable asset reference.
NextIsBlank(j) ==
    kind[j] = "gemini" /\ uploaded[j] < inputs[j].blanks

\* One input image is resolved and uploaded; after the last one the remaining
\* parameters are validated and the job is submitted.
UploadImage(j) ==
    /\ pc[j] = "uploading"
    /\ uploaded[j] < ImageEntries(kind[j], inputs[j])
    /\ ~NextIsBlank(j)
    /\ uploaded' = [uploaded EXCEPT ![j] = @ + 1]
    /\ LET progress == IF MultiImage(kind[j])
                       THEN <<UploadStatus(kind[j], uploaded[j] + 1,
                                           ImageEntries(kind[j], inputs[j]))>>
                       ELSE <<>>
           late == LateValidationError(kind[j], inputs[j])
       IN IF uploaded[j] + 1 < ImageEntries(kind[j], inputs[j])
          THEN /\ Send(j, progress)
               /\ UNCHANGED <<stepCount, strategy, submittedAt, pc>>
          ELSE IF late # ""
          THEN /\ Send(j, progress \o <<Status("error", Msg(late), NoProgress)>>)
               /\ pc' = [pc EXCEPT ![j] = "rejected"]
               /\ UNCHANGED <<stepCount, strategy, submittedAt>>
          ELSE /\ Send(j, progress)
               /\ Submit(j, kind[j], inputs[j])
    /\ UNCHANGED <<clock, kind, inputs, trace,
                 result, outputs>>

\* Resolving or uploading an input image throws.  An adapter that does this
\* inside its try block reports the error from the catch block.
UploadFails(j) ==
    /\ pc[j] = "uploading"
    /\ uploaded[j] < ImageEntries(kind[j], inputs[j])
    /\ Send(j, IF ResolvesBeforeTry(kind[j])
               THEN <<>>
               ELSE <<Status("error", Msg("upload failed"), NoProgress)>>)
    /\ pc' = [pc EXCEPT ![j] = "rejected"]
    /\ UNCHANGED <<clock, kind, inputs, uploaded, stepCount, strategy, submittedAt, trace,
                 result, outputs>>

\* fal.subscribe delivers one lifecycle event to onQueueUpdate.
QueueUpdate(j, status, limit) ==
    /\ pc[j] = "subscribed"
    /\ status = Completed \/ Len(trace[j]) < limit
    /\ LET r == onQueueUpdate(kind[j], strategy[Cell(j)], stepCount[Cell(j)], clock, status)
       IN /\ stepCount' = [stepCount EXCEPT ![Cell(j)] = r.stepCount]
          /\ trace' = [trace EXCEPT ![j] =
                          Append(@, [status |-> status, at |-> clock,
                                     calls |-> r.calls, sent |-> r.sent])]
          /\ Send(j, r.sent)
    /\ pc' = [pc EXCEPT ![j] = IF status = Completed THEN "finalizing" ELSE @]
    /\ UNCHANGED <<clock, kind, inputs, uploaded, strategy, submittedAt,
                 result, outputs>>

\* fal.subscribe rejects: the catch block reports the error and rethrows.
SubscribeFails(j) ==
    /\ pc[j] = "subscribed"
    /\ Send(j, <<Status("error", Msg("job failed"), NoProgress)>>)
    /\ pc' = [pc EXCEPT ![j] = "rejected"]
    /\ UNCHANGED <<clock, kind, inputs, uploaded, stepCount, strategy, submittedAt, trace,
                 result, outputs>>

\* fal.subscribe resolved: each returned media is downloaded and stored in the
\* host's asset store, and the URIs are returned; a throw is reported by the
\* catch block.
Finish(j, images) ==
    /\ pc[j] = "finalizing"
    /\ result' = [result EXCEPT ![j] = images]
    /\ LET r == StoreResult(kind[j], images)
       IN IF r.error # ""
          THEN /\ Send(j, <<Status("error", Msg(r.error), NoProgress)>>)
               /\ pc' = [pc EXCEPT ![j] = "rejected"]
               /\ UNCHANGED outputs
          ELSE /\ outputs' = [outputs EXCEPT ![j] = r.uris]
               /\ pc' = [pc EXCEPT ![j] = "resolved"]
               /\ UNCHANGED sink
    /\ UNCHANGED <<clock, kind, inputs, uploaded, stepCount, strategy, submittedAt, trace>>

\* A download that reports its failure where it throws, before the catch
\* block reports it again.
FinishFails_ReportsTwice(j) ==
    /\ pc[j] = "finalizing"
    /\ Send(j, <<Status("error", Msg("no result"), NoProgress),
                 Status("error", Msg("no result"), NoProgress)>>)
    /\ pc' = [pc EXCEPT ![j] = "rejected"]
    /\ UNCHANGED <<clock, kind, inputs, uploaded, stepCount, strategy, submittedAt, trace,
                 result, outputs>>

\* The download of a returned media throws.
FinishFails(j) ==
    /\ pc[j] = "finalizing"
    /\ Send(j, <<Status("error", Msg("no result"), NoProgress)>>)
    /\ pc' = [pc EXCEPT ![j] = "rejected"]
    /\ UNCHANGED <<clock, kind, inputs, uploaded, stepCount, strategy, submittedAt, trace,
                 result, outputs>>

Tick(limit) ==
    /\ clock < limit * TickMs
    /\ clock' = clock + TickMs
    /\ UNCHANGED <<pc, kind, inputs, uploaded, stepCount, strategy, submittedAt, trace, sink,
                 result, outputs>>

\* One execution at a time.
Next ==
    \/ \E k \in Kinds : \E in \in InputChoices(k) : Execute(1, k, in)
    \/ UploadImage(1)
    \/ UploadFails(1)
    \/ \E status \in RunningEvents \cup {Completed} : QueueUpdate(1, status, MaxEvents)
    \/ SubscribeFails(1)
    \/ \E images \in PlainResponses : Finish(1, images)
    \/ FinishFails(1)
    \/ Tick(MaxTicks)

Spec == Init /\ [][Next]_vars

\* Several executions at once, their awaits interleaving: executions of
\* veo31ImageToVideoNode and nanoBananaProEditNode in turn.
ConcKinds(j) == IF j % 2 = 1 THEN {"veo31"} ELSE {"nbpEdit"}

ConcInputs(k) == {in \in InputChoices(k) :
                     /\ ValidationError(k, in) = ""
                     /\ in.images = 1
                     /\ in.blanks = 0
                     /\ in.model_variant = (IF k = "veo31" THEN "fast" ELSE "standard")
                     /\ in.resolution = "720p"
                     /\ in.num_images = "1"}

ConcEvents == {Event("IN_PROGRESS", "none"), Completed}

NextConc ==
    \/ \E j \in Jobs : \E k \in ConcKinds(j) : \E in \in ConcInputs(k) : Execute(j, k, in)
    \/ \E j \in Jobs : UploadImage(j)
    \/ \E j \in Jobs : \E status \in ConcEvents : QueueUpdate(j, status, MaxConcEvents)
    \/ Tick(MaxConcTicks)

SpecConc == Init /\ [][NextConc]_vars

\* From execute() to the submission of the job, for every parameter value a
\* caller can pass.
NextSubmit ==
    \/ \E k \in SubmitKinds : \E in \in InputChoices(k) : Execute(1, k, in)
    \/ UploadImage(1)
    \/ UploadFails(1)

SpecSubmit == Init /\ [][NextSubmit]_vars

\* The executions followed through the storing of their result: the job
\* completes and its response is any of the responses the provider can give.
ResultKinds == {"nbpEdit", "fluxProControl", "sam3Video", "veo31"}

NextResult ==
    \/ \E k \in ResultKinds : \E in \in InputChoices(k) : Execute(1, k, in)
    \/ UploadImage(1)
    \/ QueueUpdate(1, Completed, 0)
    \/ \E images \in ResultChoices(kind[1]) : Finish(1, images)
    \/ FinishFails(1)

SpecResult == Init /\ [][NextResult]_vars

\* The strategy used directly: constructed with any expectedMs, the
\* misconfigured ones included, and its handlers called in any order.
ExpectedMsChoices == {0 - TickMs, 0, TickMs}

DirectConfig(ms) ==
    [expectedMs |-> ms,
     inQueueMessage |-> Msg("Waiting in queue..."),
     finalizingMessage |-> Msg("Finalizing..."),
     defaultInProgressMessage |-> "Processing step"]

Construct(c, ms) ==
    /\ ~strategy[c].live
    /\ strategy' = [strategy EXCEPT ![c] = createProgressStrategy(DirectConfig(ms), clock)]
    /\ UNCHANGED <<clock, pc, kind, inputs, uploaded, stepCount, submittedAt, trace, sink,
                 result, outputs>>

CallOnQueue(c) ==
    /\ strategy[c].live
    /\ Len(trace[c]) < MaxEvents
    /\ trace' = [trace EXCEPT ![c] =
                    Append(@, [status |-> Event("IN_QUEUE", "none"), at |-> clock,
                               calls |-> <<Call("onQueue", 0, onQueue(strategy[c], clock))>>,
                               sent |-> <<>>])]
    /\ UNCHANGED <<clock, pc, kind, inputs, uploaded, stepCount, strategy, submittedAt, sink,
                 result, outputs>>

CallOnProgress(c, status, stepIndex) ==
    /\ strategy[c].live
    /\ Len(trace[c]) < MaxEvents
    /\ trace' = [trace EXCEPT ![c] =
                    Append(@, [status |-> status, at |-> clock,
                               calls |-> <<Call("onProgress", stepIndex,
                                                onProgress(strategy[c], clock, status, stepIndex))>>,
                               sent |-> <<>>])]
    /\ UNCHANGED <<clock, pc, kind, inputs, uploaded, stepCount, strategy, submittedAt, sink,
                 result, outputs>>

NextStrategy ==
    \/ \E ms \in ExpectedMsChoices : Construct(1, ms)
    \/ CallOnQueue(1)
    \/ \E l \in {"none", "milestone"} : \E stepIndex \in 0..MaxEvents :
          CallOnProgress(1, Event("IN_PROGRESS", l), stepIndex)
    \/ Tick(MaxTicks)

SpecStrategy == Init /\ [][NextStrategy]_vars

----------------------------------------------------------------------------
(* Reading the histories *)

HasStep(st) == st.progress # NoProgress
StepOf(st) == st.progress[1]
TotalOf(st) == st.progress[2]

RECURSIVE CallsOf(_)
\* Every strategy call of a trace, in order.
CallsOf(tr) == IF tr = <<>> THEN <<>> ELSE CallsOf(SubSeq(tr, 1, Len(tr) - 1)) \o tr[Len(tr)].calls

\* How many of the first n events of a trace are IN_PROGRESS.
InProgressUpTo(tr, n) == Cardinality({i \in 1..n : tr[i].status.status = "IN_PROGRESS"})

Submitted(j) == pc[j] \in {"subscribed", "finalizing", "resolved"}

Handler(status) ==
    IF status.status = "IN_QUEUE" THEN "onQueue"
    ELSE IF status.status = "IN_PROGRESS" THEN "onProgress"
    ELSE "onCompleted"

----------------------------------------------------------------------------
(* C1: within one execution the steps sent to the status sink never decrease,
   over the upload statuses and the IN_QUEUE, IN_PROGRESS and COMPLETED statuses,
   in whatever order the events arrive. *)
C1_SinkStepNeverDecreases ==
    \A j \in Jobs : \A a, b \in DOMAIN sink[j] :
        (a < b /\ HasStep(sink[j][a]) /\ HasStep(sink[j][b]))
            => StepOf(sink[j][a]) <= StepOf(sink[j][b])

(* C2: the steps one strategy returns from onQueue and onProgress never
   decrease until onCompleted is called, also when a queued event follows
   in-progress events. *)
C2_StrategyStepNeverDecreases ==
    \A j \in Jobs :
        LET cs == CallsOf(trace[j])
        IN \A a, b \in DOMAIN cs :
            (a < b /\ cs[a].handler # "onCompleted" /\ cs[b].handler # "onCompleted")
                => cs[a].ret.progress[1] <= cs[b].ret.progress[1]

(* C3: before the completed event no step is 100: every step onProgress
   returns, and every step an adapter sends before the COMPLETED event, is
   below 100. *)
C3_Only100OnCompleted ==
    \A j \in Jobs :
        /\ pc[j] \in {"uploading", "subscribed"}
              => \A i \in DOMAIN sink[j] : HasStep(sink[j][i]) => StepOf(sink[j][i]) < 100
        /\ \A i \in DOMAIN trace[j] :
              trace[j][i].status.status # "COMPLETED"
                 => /\ \A n \in DOMAIN trace[j][i].sent : StepOf(trace[j][i].sent[n]) < 100
                    /\ \A n \in DOMAIN trace[j][i].calls :
                          trace[j][i].calls[n].ret.progress[1] < 100

C3_Witness ==
    \E j \in Jobs : \E i \in DOMAIN trace[j] :
        /\ pc[j] = "subscribed"
        /\ trace[j][i].status.status = "IN_PROGRESS"
        /\ trace[j][i].at - submittedAt[j] >= strategy[Cell(j)].expectedMs
        /\ StepOf(trace[j][i].sent[1]) = Ceiling

(* C4: every lifecycle event makes the adapter call the matching strategy
   handler, once, and send exactly the step, total and message it returned. *)
C4_ForwardedVerbatim ==
    \A j \in Jobs : \A i \in DOMAIN trace[j] :
        LET e == trace[j][i]
        IN /\ Len(e.calls) = 1
           /\ e.calls[1].handler = Handler(e.status)
           /\ Len(e.sent) = 1
           /\ e.sent[1].message = e.calls[1].ret.message
           /\ e.sent[1].progress = e.calls[1].ret.progress

(* C5: onCompleted is called at most once in an execution and no strategy
   call follows it. *)
C5_CompletedIsTerminal ==
    \A j \in Jobs :
        LET cs == CallsOf(trace[j])
        IN \A a \in DOMAIN cs : cs[a].handler = "onCompleted" => a = Len(cs)

C5_Witness ==
    \E j \in Jobs :
        /\ pc[j] = "resolved"
        /\ Len(trace[j]) = 3
        /\ trace[j][1].status.status = "IN_PROGRESS"
        /\ trace[j][2].status.status = "IN_QUEUE"
        /\ CallsOf(trace[j])[3].handler = "onCompleted"

\* The statuses an execution sends before it submits its job.
Prologue(k, in) ==
    <<Status("running", PreparingMessage(k), NoProgress)>> \o
    (IF MultiImage(k) THEN [n \in 1..in.images |-> UploadStatus(k, n, in.images)] ELSE <<>>)

RECURSIVE Replay(_, _, _, _, _)
\* The statuses the events tr[i..] produce on a strategy and a counter that
\* nothing else touches.
Replay(k, s, count, tr, i) ==
    IF i > Len(tr) THEN <<>>
    ELSE LET r == onQueueUpdate(k, s, count, tr[i].at, tr[i].status)
         IN r.sent \o Replay(k, s, r.stepCount, tr, i + 1)

\* What execution j would have sent had it run alone, submitting its job and
\* receiving its events at the same times.
RunAlone(j) ==
    Prologue(kind[j], inputs[j]) \o
    Replay(kind[j],
           createProgressStrategy(StrategyConfig(kind[j], inputs[j]), submittedAt[j]),
           0, trace[j], 1)

(* C6: every execution has a strategy and a step counter of its own: with
   executions running concurrently and their events interleaving, each one
   reports exactly the steps and messages it would report running alone with
   the same event timings. *)
C6_ConcurrentAsAlone ==
    \A j \in Jobs : Submitted(j) => sink[j] = RunAlone(j)

C6_Witness ==
    /\ pc[1] = "subscribed" /\ pc[2] = "finalizing"
    /\ submittedAt[1] < submittedAt[2]
    /\ kind[1] # kind[2]
    /\ Len(trace[1]) = 1 /\ trace[1][1].status.status = "IN_PROGRESS"
    /\ Len(trace[2]) = 2 /\ trace[2][1].status.status = "IN_PROGRESS"
    /\ trace[2][1].at = trace[1][1].at

(* C7: on the k-th IN_PROGRESS event of an execution the adapter passes
   stepIndex k to onProgress. *)
C7_StepIndexCountsEvents ==
    \A j \in Jobs : \A i \in DOMAIN trace[j] :
        trace[j][i].status.status = "IN_PROGRESS"
            => /\ Len(trace[j][i].calls) = 1
               /\ trace[j][i].calls[1].stepIndex = InProgressUpTo(trace[j], i)

(* C8: every estimate reported has total 100 and an integer step in 0..100,
   for every event kind, elapsed time and number of input images. *)
C8_EstimateInRange ==
    \A j \in Jobs :
        /\ \A i \in DOMAIN sink[j] :
              HasStep(sink[j][i])
                 => TotalOf(sink[j][i]) = 100 /\ StepOf(sink[j][i]) \in 0..100
        /\ LET cs == CallsOf(trace[j])
           IN \A a \in DOMAIN cs :
                 cs[a].ret.progress[2] = 100 /\ cs[a].ret.progress[1] \in 0..100

C8_Witness ==
    \E j \in Jobs :
        /\ kind[j] = "gemini" /\ uploaded[j] = MaxInputImages
        /\ \E i \in DOMAIN trace[j] :
              /\ trace[j][i].status.status = "IN_PROGRESS"
              /\ trace[j][i].at > submittedAt[j]
        /\ \E i \in DOMAIN trace[j] : trace[j][i].status.status = "IN_QUEUE"
        /\ pc[j] = "finalizing"

(* C9: onCompleted returns step 100 and the finalizing message the adapter
   configured. *)
C9_CompletedReturns100 ==
    \A j \in Jobs :
        LET cs == CallsOf(trace[j])
        IN \A a \in DOMAIN cs :
              cs[a].handler = "onCompleted"
                 => /\ cs[a].ret.progress = Progress(100, 100)
                    /\ cs[a].ret.message = StrategyConfig(kind[j], inputs[j]).finalizingMessage

C9_Witness ==
    \E j \in Jobs :
        /\ pc[j] = "finalizing"
        /\ clock > submittedAt[j]
        /\ CallsOf(trace[j])[Len(CallsOf(trace[j]))].handler = "onCompleted"
        /\ Len(trace[j]) > 1

(* C10: with expectedMs > 0 every onQueue call returns a step in 0..10 and
   the configured queue message, whatever preceded it and however much time
   has passed. *)
C10_QueueStepLow ==
    \A j \in Jobs :
        LET cs == CallsOf(trace[j])
        IN \A a \in DOMAIN cs :
              (cs[a].handler = "onQueue" /\ StrategyConfig(kind[j], inputs[j]).expectedMs > 0)
                 => /\ cs[a].ret.progress[1] \in 0..10
                    /\ cs[a].ret.message = StrategyConfig(kind[j], inputs[j]).inQueueMessage

C10_Witness ==
    \E j \in Jobs : \E i \in DOMAIN trace[j] :
        /\ i > 1
        /\ trace[j][i].status.status = "IN_QUEUE"
        /\ trace[j][i - 1].status.status = "IN_PROGRESS"
        /\ trace[j][i].at > submittedAt[j]
        /\ Len(trace[j][i].calls) = 1
        /\ StrategyConfig(kind[j], inputs[j]).expectedMs > 0

(* C11: of two onQueue calls made in a row on one strategy, the second never
   returns a lower step than the first, however much time passed between them. *)
C11_QueueTwiceNeverDecreases ==
    \A j \in Jobs :
        LET cs == CallsOf(trace[j])
        IN \A a \in DOMAIN cs :
              (a < Len(cs) /\ cs[a].handler = "onQueue" /\ cs[a + 1].handler = "onQueue")
                 => cs[a].ret.progress[1] <= cs[a + 1].ret.progress[1]

C11_Witness ==
    \E j \in Jobs : \E i \in DOMAIN trace[j] :
        /\ i > 1
        /\ trace[j][i - 1].status.status = "IN_QUEUE"
        /\ trace[j][i].status.status = "IN_QUEUE"
        /\ Len(trace[j][i - 1].calls) = 1 /\ Len(trace[j][i].calls) = 1
        /\ trace[j][i].at > trace[j][i - 1].at

(* C12: a strategy constructed with expectedMs zero or negative returns from
   every onProgress call the ceiling step: an integer, not negative and below
   100. *)
C12_DegenerateSaturates ==
    \A c \in Jobs :
        LET cs == CallsOf(trace[c])
        IN \A a \in DOMAIN cs :
              (cs[a].handler = "onProgress" /\ strategy[c].expectedMs <= 0)
                 => /\ cs[a].ret.progress[1] = Ceiling
                    /\ cs[a].ret.progress[1] \in 0..99

C12_Witness ==
    \E c \in Jobs :
        /\ strategy[c].live /\ strategy[c].expectedMs = 0
        /\ Len(trace[c]) = 2
        /\ trace[c][1].status.status = "IN_PROGRESS"
        /\ trace[c][1].at = strategy[c].startedAt
        /\ trace[c][2].status.status = "IN_PROGRESS"
        /\ trace[c][2].at > strategy[c].startedAt

(* C13: every strategy an adapter constructs has an expectedMs that is a
   number and positive, whatever parameter values the caller passed. *)
C13_ExpectedMsPositive ==
    \A j \in Jobs :
        strategy[Cell(j)].live
            => /\ ~IsNaN(strategy[Cell(j)].expectedMs)
               /\ strategy[Cell(j)].expectedMs > 0

(* C14: the message onProgress returns is the milestone text when the event's
   log is a milestone, else the adapter's default message for the stepIndex
   passed, else, the adapter having configured none, the generic fallback. *)
C14_MessagePrecedence ==
    \A j \in Jobs : \A i \in DOMAIN trace[j] : \A n \in DOMAIN trace[j][i].calls :
        LET call == trace[j][i].calls[n]
            default == StrategyConfig(kind[j], inputs[j]).defaultInProgressMessage
        IN call.handler = "onProgress"
              => call.ret.message =
                    IF trace[j][i].status.log = "milestone" THEN Msg("milestone")
                    ELSE IF default # "" THEN MsgN(default, call.stepIndex)
                    ELSE Msg("Processing...")

C14_Witness ==
    \E j \in Jobs :
        /\ kind[j] = "seedvr"
        /\ Len(trace[j]) = 2
        /\ trace[j][1].status = Event("IN_PROGRESS", "milestone")
        /\ trace[j][2].status = Event("IN_PROGRESS", "none")
        /\ trace[j][2].calls[1].ret.message = Msg("Processing...")

(* C15: an execution given no prompt, or no image input holding a usable
   asset reference, resolves and uploads nothing and submits no job; it has
   rejected after an error status, or is about to fail on an empty reference. *)
C15_MissingInputRejected ==
    \A j \in Jobs :
        (/\ pc[j] # "idle"
         /\ (RequiresPrompt(kind[j]) /\ ~inputs[j].prompt) \/ inputs[j].images = 0)
            => /\ uploaded[j] = 0
               /\ ~strategy[Cell(j)].live
               /\ trace[j] = <<>>
               /\ \/ /\ pc[j] = "rejected"
                     /\ sink[j] # <<>>
                     /\ sink[j][Len(sink[j])].type = "error"
                  \/ /\ pc[j] = "uploading"
                     /\ NextIsBlank(j)

C15_Witness ==
    \E j \in Jobs :
        /\ kind[j] = "gemini"
        /\ inputs[j].prompt /\ inputs[j].images = 0 /\ inputs[j].blanks = 1
        /\ pc[j] = "rejected"
        /\ Len(sink[j]) = 2
        /\ sink[j][2].type = "error"

(* C16: the num_images of every submitted payload is a number from 1 to 4,
   whatever value the caller passed for the parameter. *)
C16_NumImagesInRange ==
    \A j \in Jobs :
        (Submitted(j) /\ kind[j] \in NumImagesKinds)
            => Payload(kind[j], inputs[j]).num_images \in 1..4

(* C17: an execution that has rejected sent an error status last, whichever
   step failed. *)
C17_RejectedAfterErrorStatus ==
    \A j \in Jobs :
        pc[j] = "rejected"
            => /\ sink[j] # <<>>
               /\ sink[j][Len(sink[j])].type = "error"

(* C18: when a validation failure is reported no input asset has been
   resolved or uploaded. *)
C18_ValidationBeforeAssets ==
    \A j \in Jobs : \A i \in DOMAIN sink[j] :
        (/\ sink[j][i].type = "error"
         /\ sink[j][i].message \in {Msg(ValidationError(kind[j], inputs[j])),
                                    Msg(LateValidationError(kind[j], inputs[j]))}
         /\ sink[j][i].message # Msg(""))
            => uploaded[j] = 0

(* C19: in the adapters reporting per-image upload progress, the step sent on
   an IN_QUEUE event is not lower than the step sent for the last uploaded
   input image, for one to four images. *)
C19_QueueKeepsUploadProgress ==
    \A j \in Jobs : \A i \in DOMAIN trace[j] :
        (MultiImage(kind[j]) /\ trace[j][i].status.status = "IN_QUEUE")
            => \A n \in DOMAIN trace[j][i].sent :
                  StepOf(trace[j][i].sent[n]) >= UploadStep(kind[j], uploaded[j])

(* C20: a Sora 2 execution with a prompt and an image, the standard variant
   and resolution 1080p requested has rejected after the one error status
   '1080p resolution is only available in Pro variant', submitting no job. *)
C20_Standard1080pRejected ==
    \A j \in Jobs :
        (/\ pc[j] # "idle"
         /\ kind[j] = "sora2I2V"
         /\ inputs[j].prompt /\ inputs[j].images > 0
         /\ inputs[j].model_variant = "standard"
         /\ inputs[j].resolution = "1080p")
            => /\ pc[j] = "rejected"
               /\ sink[j] = <<Status("error",
                                     Msg("1080p resolution is only available in Pro variant"),
                                     NoProgress)>>

(* C21: a Seedream Edit execution with a prompt and an image and no width or
   height input, so that the default size applies, passes the size validation:
   the first status it sends is the running status of the image preparation. *)
C21_DefaultSizeAccepted ==
    \A j \in Jobs :
        (/\ pc[j] # "idle"
         /\ kind[j] = "seedreamEdit"
         /\ inputs[j].prompt /\ inputs[j].images > 0
         /\ inputs[j].width = "absent" /\ inputs[j].height = "absent")
            => /\ sink[j] # <<>>
               /\ sink[j][1] = Status("running", Msg("Preparing input images..."), NoProgress)

(* C22: a Seedream Edit execution with a prompt and an image gets past the
   size validation only with a width and a height both in 1920..4096 or a
   pixel count in 3,686,400..16,777,216; with any other size, a non-numeric
   one included, it has rejected after the one error status of the size
   validation, with no asset uploaded. *)
C22_SizeAcceptedOnlyInRange ==
    \A j \in Jobs :
        LET w == ImageWidth(inputs[j])
            h == ImageHeight(inputs[j])
            inRange == /\ w # NaN /\ h # NaN
                       /\ \/ w \in 1920..4096 /\ h \in 1920..4096
                          \/ w * h \in 3686400..16777216
        IN (/\ pc[j] # "idle"
            /\ kind[j] = "seedreamEdit"
            /\ inputs[j].prompt /\ inputs[j].images > 0
            /\ ~inRange)
               => /\ pc[j] = "rejected"
                  /\ sink[j] = <<Status("error", Msg("Invalid image dimensions"), NoProgress)>>
                  /\ uploaded[j] = 0

\* Both halves happen: a size accepted by its pixel count alone has been
\* submitted, and the sides are outside 1920..4096.
C22_Witness ==
    \E j \in Jobs :
        /\ kind[j] = "seedreamEdit"
        /\ inputs[j].width = "1440" /\ inputs[j].height = "2560"
        /\ Submitted(j)
        /\ uploaded[j] = 1

(* C23: a Flux Pro control execution of a variant that requires fine-tuning,
   given a fine-tune ID and a finetune_strength that is not a number, has
   rejected after the error status 'Fine-tune strength is required for the
   selected model variant' once its control image is resolved, and has
   submitted no job. *)
C23_InvalidStrengthRejected ==
    \A j \in Jobs :
        (/\ pc[j] \notin {"idle", "uploading"}
         /\ kind[j] = "fluxProControl"
         /\ inputs[j].prompt
         /\ inputs[j].images > 0 /\ uploaded[j] = inputs[j].images
         /\ RequiresFinetune(inputs[j].model_variant)
         /\ inputs[j].finetune_id # ""
         /\ inputs[j].finetune_strength = "abc")
            => /\ pc[j] = "rejected"
               /\ sink[j] # <<>>
               /\ sink[j][Len(sink[j])] =
                      Status("error",
                             Msg("Fine-tune strength is required for the selected model variant"),
                             NoProgress)

(* C24: an execution sends at most one error status and no status after it:
   an error status is the last status sent. *)
C24_ErrorStatusIsLast ==
    \A j \in Jobs : \A i \in DOMAIN sink[j] :
        sink[j][i].type = "error" => i = Len(sink[j])

\* An execution that reported progress of its job and then failed.
C24_Witness ==
    \E j \in Jobs :
        /\ pc[j] = "rejected"
        /\ trace[j] # <<>>
        /\ Len(sink[j]) >= 3
        /\ sink[j][Len(sink[j])].type = "error"
        /\ sink[j][Len(sink[j]) - 1].type = "running"

(* C25: an execution of an image adapter that has resolved returned one URI
   per image of the response, the i-th URI being that of the i-th image. *)
C25_OneUriPerImage ==
    \A j \in Jobs :
        (pc[j] = "resolved" /\ ~SingleMedia(kind[j]))
            => /\ Len(outputs[j]) = Len(result[j])
               /\ \A i \in DOMAIN outputs[j] : outputs[j][i] = i

(* C26: every URI an execution that has resolved returned is a URI the asset
   store yielded, and an execution whose response held a media the store
   yielded no URI for has rejected after an error status. *)
C26_OutputsAreStoredUris ==
    \A j \in Jobs :
        /\ pc[j] = "resolved" => \A i \in DOMAIN outputs[j] : outputs[j][i] # 0
        /\ (/\ pc[j] \in {"resolved", "rejected"}
            /\ \E i \in DOMAIN result[j] : result[j][i].url /\ ~result[j][i].uri)
               => /\ pc[j] = "rejected"
                  /\ sink[j][Len(sink[j])].type = "error"

====
